---- MODULE Spec2Model ----
(***************************************************************************)
(* Batched insertions into a vector: the InsertionSet queue (lib.rs), the  *)
(* stable insertion sort that orders it (sorting.rs), the BulkShifter that *)
(* rearranges the vector's buffer in place (shift.rs), the driver          *)
(* apply_bulk_insertions and its dry run compute_updated_locations.        *)
(*                                                                         *)
(* Memory is modelled physically: the buffer of the target Vec is a        *)
(* sequence of slots, each holding the bits of an element or Uninit (never *)
(* written).  ptr::copy leaves the bits of its source in place, as the     *)
(* machine does; which slots are live is decided by the Vec's len and by   *)
(* the shifter's shifted_start / shifted_end, as in the code.  Elements    *)
(* are distinct tokens, so a duplicated or lost element is visible.        *)
(***************************************************************************)
EXTENDS Integers, Sequences, FiniteSets, TLC

\* Bounds of the model.
MaxLen == 3
MaxIns == 3
MaxCalls == 2

\* Insertion indexes range over 0..MaxIndex: one past the longest initial vector,
\* so that out-of-bounds indexes occur.
MaxIndex == MaxLen + 1

\* A slot of reserved memory that was never written ("undef" in shift.rs).
Uninit == 0

\* The element originally at index i of the initial vector, and the element
\* carried by the k-th insertion ever queued (k counts from 0).
OriginalElement(i) == i + 1
InsertedElement(k) == MaxLen + 1 + k

VARIABLES
    target,         \* the Vec<T>: [buf |-> slots of the allocation, len |-> Vec::len]
    shifted_start,  \* BulkShifter.shifted_start
    shifted_end,    \* BulkShifter.shifted_end
    insertions,     \* InsertionSet.insertions / the backing store of the iterator
    size_lie,       \* what the iterator's len() adds to its true remaining count
    loc,            \* locals of compute_updated_locations and what it emitted
    locations,      \* the Vec returned by the last list_updated_locations
    view,           \* the slice returned by the last shifted_elements
    pc,             \* where the program is
    fault,          \* the panic message, "none" when no panic
    oob,            \* a slot at or beyond shifted_end was read or written
    ops,            \* what the shifter did so far: the slots it reserved, the
                    \* elements ptr::copy moved, the values ptr::write wrote, and
                    \* its fields after each turn of the driver's loop
    dropped,        \* the elements whose destructor ran, in order
    next_id,        \* how many insertions were ever queued
    calls,          \* how many apply / list calls were started
    call,           \* the call begun last: "none", "apply", "list", ...
    apply_S,        \* the vector as it stood when the last apply began
    apply_B,        \* the queue as it stood when the last apply began (before sort)
    list_S,         \* the slice given to the last list_updated_locations
    list_B          \* the queue as it stood when that call began (before sort)

vars == <<target, shifted_start, shifted_end, ops, insertions, size_lie, loc, locations,
          view, pc, fault, oob, dropped, next_id, calls, call, apply_S, apply_B, list_S, list_B>>

-----------------------------------------------------------------------------
\* lib.rs: Insertion

Insertion(index, element) == [index |-> index, element |-> element]

-----------------------------------------------------------------------------
\* sorting.rs

\* target.swap(i, j), on 0-based indexes
swap(t, i, j) == [t EXCEPT ![i + 1] = t[j + 1], ![j + 1] = t[i + 1]]

\* a comparison that also reports equal keys as out of order
compare_is_not_less(a, b) == a.index >= b.index

\* compare(a, b) == Ordering::Greater, with compare = |a, b| key(a).cmp(&key(b))
\* and key = |insertion| insertion.index
compare_is_greater(a, b) == a.index > b.index

\* an inner loop that stops one slot short of the front
RECURSIVE insertion_sort_inner_short(_, _)
insertion_sort_inner_short(t, j) ==
    IF j > 1 /\ compare_is_greater(t[j], t[j + 1])
    THEN insertion_sort_inner_short(swap(t, j, j - 1), j - 1)
    ELSE t

\* the inner loop: while j > 0 && compare(t[j-1], t[j]) == Greater { swap; j -= 1 }
RECURSIVE insertion_sort_inner(_, _)
insertion_sort_inner(t, j) ==
    IF j > 0 /\ compare_is_greater(t[j], t[j + 1])
    THEN insertion_sort_inner(swap(t, j, j - 1), j - 1)
    ELSE t

\* the outer loop: for i in 1..target.len()
RECURSIVE insertion_sort_outer(_, _)
insertion_sort_outer(t, i) ==
    IF i < Len(t)
    THEN insertion_sort_outer(insertion_sort_inner(t, i), i + 1)
    ELSE t

insertion_sort_by_key(t) == insertion_sort_outer(t, 1)

-----------------------------------------------------------------------------
\* Raw memory

\* the slot at 0-based index i; outside the allocation there is nothing to read
read_slot(buf, i) == IF i >= 0 /\ i < Len(buf) THEN buf[i + 1] ELSE Uninit

\* a copy that runs forward one slot at a time, as ptr::copy_nonoverlapping may:
\* an overlapping destination reads slots the copy has already overwritten
RECURSIVE copy_forward(_, _, _, _)
copy_forward(buf, src, dst, count) ==
    IF count <= 0 THEN buf
    ELSE copy_forward([i \in 1..Len(buf) |-> IF i - 1 = dst THEN read_slot(buf, src) ELSE buf[i]],
                      src + 1, dst + 1, count - 1)

\* ptr::copy(src, dst, count): memmove, the source may overlap the destination
ptr_copy(buf, src, dst, count) ==
    [i \in 1..Len(buf) |->
        IF i - 1 >= dst /\ i - 1 < dst + count
        THEN read_slot(buf, src + (i - 1 - dst))
        ELSE buf[i]]

\* ptr::write(dst, value)
ptr_write(buf, dst, value) ==
    [i \in 1..Len(buf) |-> IF i - 1 = dst THEN value ELSE buf[i]]

\* Vec::reserve(additional): capacity for len + additional elements, reallocating
\* (the old bytes are kept, the new tail is uninitialized) when there is not
reserve(v, additional) ==
    IF Len(v.buf) - v.len >= additional
    THEN v
    ELSE [v EXCEPT !.buf = v.buf \o [i \in 1..(v.len + additional - Len(v.buf)) |-> Uninit]]

\* the live elements of a Vec: its slots [0, len)
Elements(v) == SubSeq(v.buf, 1, v.len)

-----------------------------------------------------------------------------
\* shift.rs: BulkShifter.  self is
\*   [target, shifted_start, shifted_end, fault, oob, ops]

Panic(self, msg) == [self EXCEPT !.fault = msg]

BulkShifter_new(t, desired_insertions) ==
    [target        |-> reserve(t, desired_insertions),
     shifted_end   |-> t.len + desired_insertions,
     shifted_start |-> t.len + desired_insertions,
     fault         |-> "none",
     oob           |-> FALSE,
     ops           |-> [desired |-> desired_insertions, copied |-> <<>>,
                        written |-> <<>>, steps |-> <<>>]]

len(self) == self.target.len

is_finished(self) == self.shifted_start = len(self)

\* shift_original without its first assertion
shift_original_unchecked(self, start) ==
    LET moved_memory == len(self) - start IN
    IF moved_memory = 0
    THEN self
    ELSE IF ~(self.shifted_start >= moved_memory
              /\ start <= self.shifted_start - moved_memory)
    THEN Panic(self, "Insufficient room to move")
    ELSE [self EXCEPT
            !.target.buf = ptr_copy(@, start, self.shifted_start - moved_memory,
                                    moved_memory),
            !.shifted_start = @ - moved_memory,
            !.target.len = start,
            !.ops.copied = @ \o [i \in 1..moved_memory |->
                                   read_slot(self.target.buf, start + i - 1)],
            !.oob = @ \/ len(self) > self.shifted_end
                      \/ self.shifted_start > self.shifted_end]

\* shift_original without its set_len(start): the moved run stays in the
\* original region as well
shift_original_keeps_len(self, start) ==
    IF ~(start <= len(self))
    THEN Panic(self, "assertion failed: start <= self.len()")
    ELSE LET moved_memory == len(self) - start IN
         IF moved_memory = 0
         THEN self
         ELSE IF ~(self.shifted_start >= moved_memory
                   /\ start <= self.shifted_start - moved_memory)
         THEN Panic(self, "Insufficient room to move")
         ELSE [self EXCEPT
                 !.target.buf = ptr_copy(@, start, self.shifted_start - moved_memory,
                                         moved_memory),
                 !.shifted_start = @ - moved_memory,
                 !.ops.copied = @ \o [i \in 1..moved_memory |->
                                        read_slot(self.target.buf, start + i - 1)],
                 !.oob = @ \/ len(self) > self.shifted_end
                           \/ self.shifted_start > self.shifted_end]

shift_original(self, start) ==
    IF ~(start <= len(self))
    THEN Panic(self, "assertion failed: start <= self.len()")
    ELSE LET moved_memory == len(self) - start IN
         IF moved_memory = 0
         THEN self
         ELSE IF ~(self.shifted_start >= moved_memory
                   /\ start <= self.shifted_start - moved_memory)
         THEN Panic(self, "Insufficient room to move")
         ELSE [self EXCEPT
                 !.target.buf = ptr_copy(@, start, self.shifted_start - moved_memory,
                                         moved_memory),
                 !.shifted_start = @ - moved_memory,
                 !.target.len = start,
                 !.ops.copied = @ \o [i \in 1..moved_memory |->
                                        read_slot(self.target.buf, start + i - 1)],
                 !.oob = @ \/ len(self) > self.shifted_end
                           \/ self.shifted_start > self.shifted_end]

\* push_shifted that checks for room after it has lowered shifted_start
push_shifted_checks_late(self, value) ==
    IF ~(self.shifted_start > len(self))
    THEN Panic([self EXCEPT !.shifted_start = @ - 1], "Insufficient room!")
    ELSE [self EXCEPT
            !.shifted_start = @ - 1,
            !.target.buf = ptr_write(@, self.shifted_start - 1, value),
            !.ops.written = Append(@, value),
            !.oob = @ \/ self.shifted_start - 1 >= self.shifted_end
                      \/ self.shifted_start - 1 < 0]

\* push_shifted that writes before it lowers shifted_start
push_shifted_write_first(self, value) ==
    IF ~(self.shifted_start > len(self))
    THEN Panic(self, "Insufficient room!")
    ELSE [self EXCEPT
            !.shifted_start = @ - 1,
            !.target.buf = ptr_write(@, self.shifted_start, value),
            !.ops.written = Append(@, value),
            !.oob = @ \/ self.shifted_start >= self.shifted_end
                      \/ self.shifted_start < 0]

\* push_shifted without its assertion
push_shifted_unchecked(self, value) ==
    [self EXCEPT
        !.shifted_start = @ - 1,
        !.target.buf = ptr_write(@, self.shifted_start - 1, value),
        !.ops.written = Append(@, value),
        !.oob = @ \/ self.shifted_start - 1 >= self.shifted_end
                  \/ self.shifted_start - 1 < 0]

push_shifted(self, value) ==
    IF ~(self.shifted_start > len(self))
    THEN Panic(self, "Insufficient room!")
    ELSE [self EXCEPT
            !.shifted_start = @ - 1,
            !.target.buf = ptr_write(@, self.shifted_start - 1, value),
            !.ops.written = Append(@, value),
            !.oob = @ \/ self.shifted_start - 1 >= self.shifted_end
                      \/ self.shifted_start - 1 < 0]

\* finish without its assertion
finish_unchecked(self) == [self EXCEPT !.target.len = self.shifted_end]

finish(self) ==
    IF ~is_finished(self)
    THEN Panic(self, "Unfinished")
    ELSE [self EXCEPT !.target.len = self.shifted_end]

shifted_len(self) == self.shifted_end - self.shifted_start

\* slice::from_raw_parts(ptr.add(shifted_start), shifted_len())
shifted_elements(self) ==
    [i \in 1..shifted_len(self) |-> read_slot(self.target.buf, self.shifted_start + i - 1)]

-----------------------------------------------------------------------------
\* lib.rs: OriginalLocation, and the pairs (original, updated) given to the callback

OriginalLocation_Insertion(k) == [kind |-> "Insertion", n |-> k]
OriginalLocation_Original(i) == [kind |-> "Original", n |-> i]

Located(original, updated) == [original |-> original, updated |-> updated]

\* update_range with the updated position advanced before the call
update_range_late(from, to, updated_start) ==
    [k \in 1..(to - from) |->
        [original |-> [kind |-> "Original", n |-> from + k - 1],
         updated |-> updated_start + k]]

\* update_range(original, updated_start, func): one call of func per index of the range
update_range(from, to, updated_start) ==
    [k \in 1..(to - from) |->
        Located(OriginalLocation_Original(from + k - 1), updated_start + k - 1)]

\* result.sort_by_key(|&(_, updated)| updated): a stable sort by the updated position
RECURSIVE insert_by_updated(_, _)
insert_by_updated(sorted, x) ==
    IF sorted = <<>> \/ sorted[Len(sorted)].updated <= x.updated
    THEN Append(sorted, x)
    ELSE Append(insert_by_updated(SubSeq(sorted, 1, Len(sorted) - 1), x),
                sorted[Len(sorted)])

RECURSIVE sort_by_updated(_)
sort_by_updated(s) ==
    IF s = <<>> THEN <<>>
    ELSE insert_by_updated(sort_by_updated(SubSeq(s, 1, Len(s) - 1)), s[Len(s)])

-----------------------------------------------------------------------------
\* The iterator handed to the drivers.  It yields the items of `insertions` from
\* the back (PoppingIter::next is Vec::pop; the set's dry run iterates .rev()).
\* PoppingIter's ExactSizeIterator::len() is the true remaining count.  Another
\* iterator may report a wrong one: the true count plus size_lie.by (a usize, so
\* never below 0), either at every call (size_lie.kept) or only until its first
\* item has been taken.

Honest == [by |-> 0, kept |-> TRUE]

exact_len(remaining, consumed) ==
    LET by == IF size_lie.kept \/ consumed = 0 THEN size_lie.by ELSE 0
    IN IF remaining + by < 0 THEN 0 ELSE remaining + by

Reverse(s) == [i \in 1..Len(s) |-> s[Len(s) + 1 - i]]

Indexes(s) == [i \in 1..Len(s) |-> s[i].index]

ElementsOf(s) == [i \in 1..Len(s) |-> s[i].element]

-----------------------------------------------------------------------------
\* The shifter as the variables hold it, and the assignment of a shifter to them

Self ==
    [target |-> target, shifted_start |-> shifted_start, shifted_end |-> shifted_end,
     fault |-> "none", oob |-> oob, ops |-> ops]

Commit(self) ==
    /\ target' = self.target
    /\ shifted_start' = self.shifted_start
    /\ shifted_end' = self.shifted_end
    /\ fault' = self.fault
    /\ oob' = self.oob
    /\ ops' = self.ops

NoLoc ==
    [original_len |-> 0, shifted_start |-> 0, shifted_end |-> 0, insertion_id |-> 0,
     iter |-> <<>>, emitted |-> <<>>, steps |-> <<>>, fault |-> "none"]

\* no shifter was built yet
NoOps == [desired |-> 0, copied |-> <<>>, written |-> <<>>, steps |-> <<>>]

\* the shifter's fields as they stand when a turn of the driver's loop is over
end_of_turn(self) ==
    IF self.fault = "none"
    THEN [self EXCEPT !.ops.steps =
            Append(@, <<len(self), self.shifted_start, self.shifted_end>>)]
    ELSE self

-----------------------------------------------------------------------------
\* lib.rs: apply_bulk_insertions

\* let mut shifter = BulkShifter::new(target, insertions.len());
apply_bulk_insertions_begin(queue) ==
    /\ Commit(BulkShifter_new(target, exact_len(Len(queue), 0)))
    /\ insertions' = queue
    /\ pc' = "apply_loop"

\* one turn of `while !shifter.is_finished()`
apply_bulk_insertions_loop ==
    /\ pc = "apply_loop"
    /\ ~is_finished(Self)
    /\ IF insertions = <<>>
       THEN /\ Commit(Panic(Self, "Expected more insertions!"))
            /\ pc' = "panicked"
            /\ UNCHANGED <<insertions, dropped>>
       ELSE LET next == insertions[Len(insertions)]
                shifted == shift_original(Self, next.index)
                pushed == IF shifted.fault = "none"
                          THEN push_shifted(shifted, next.element)
                          ELSE shifted
            IN /\ insertions' = SubSeq(insertions, 1, Len(insertions) - 1)
               /\ Commit(end_of_turn(pushed))
               \* a panic unwinds through the iteration and drops the popped element
               /\ dropped' = IF pushed.fault = "none" THEN dropped
                             ELSE Append(dropped, next.element)
               /\ pc' = IF pushed.fault = "none" THEN "apply_loop" ELSE "panicked"
    /\ UNCHANGED <<size_lie, loc, locations, view, next_id, calls, call,
                   apply_S, apply_B, list_S, list_B>>

\* shifter.finish(); assert_eq!(insertions.len(), 0, "Unexpected insertions");
apply_bulk_insertions_end ==
    /\ pc = "apply_loop"
    /\ is_finished(Self)
    /\ LET finished == finish(Self)
           checked == IF finished.fault = "none"
                         /\ exact_len(Len(insertions), Len(apply_B) - Len(insertions)) # 0
                      THEN Panic(finished, "Unexpected insertions")
                      ELSE finished
       IN /\ Commit(checked)
          /\ pc' = IF checked.fault = "none" THEN "idle" ELSE "panicked"
    /\ UNCHANGED <<insertions, size_lie, loc, locations, view, dropped, next_id, calls, call,
                   apply_S, apply_B, list_S, list_B>>

-----------------------------------------------------------------------------
\* lib.rs: compute_updated_locations.  l holds its locals, the iterator's remaining
\* indexes (next one first) and the calls made to the callback so far; func names
\* the callback.

compute_begin(slice_len, indexes) ==
    [original_len  |-> slice_len,
     shifted_end   |-> slice_len + exact_len(Len(indexes), 0),
     shifted_start |-> slice_len + exact_len(Len(indexes), 0),
     insertion_id  |-> 0,
     iter          |-> indexes,
     emitted       |-> <<>>,
     steps         |-> <<>>,
     fault         |-> "none"]

\* callbacks that convert the reversed insertion index wrongly
set_callback_unconverted(original) == original

set_callback_off_by_one(original) ==
    IF original.kind = "Original"
    THEN original
    ELSE OriginalLocation_Insertion(Len(insertions) - original.n)

\* the callback of InsertionSet::compute_updated_locations: the reversed insertion
\* index is converted back
set_callback(original) ==
    IF original.kind = "Original"
    THEN original
    ELSE OriginalLocation_Insertion(Len(insertions) - (original.n + 1))

\* the callback of a direct caller: the location as the function reports it
raw_callback(original) == original

\* func(original, ..): the callback the caller passed, named by func
call_func(func, original) ==
    IF func = "set" THEN set_callback(original) ELSE raw_callback(original)

\* one turn of `while original_len != shifted_start`
compute_loop(l, func) ==
    IF l.iter = <<>>
    THEN [l EXCEPT !.fault = "Expected more insertions!"]
    ELSE LET insertion_index == Head(l.iter)
             taken == [l EXCEPT !.iter = Tail(l.iter)]
         IN IF ~(insertion_index <= l.original_len)
            THEN [taken EXCEPT !.fault = "Invalid insertion index"]
            ELSE LET moved_memory == l.original_len - insertion_index
                     room == l.shifted_start >= moved_memory
                             /\ insertion_index <= l.shifted_start - moved_memory
                     ranged == update_range(insertion_index, l.original_len,
                                            l.shifted_start - moved_memory)
                     moved == IF moved_memory > 0
                              THEN [taken EXCEPT
                                      !.emitted = @ \o [k \in 1..Len(ranged) |->
                                          Located(call_func(func, ranged[k].original), ranged[k].updated)],
                                      !.shifted_start = @ - moved_memory,
                                      !.original_len = insertion_index]
                              ELSE taken
                 IN IF moved_memory > 0 /\ ~room
                    THEN [taken EXCEPT !.fault = "assertion failed: room to move"]
                    ELSE IF ~(moved.shifted_start > moved.original_len)
                    THEN [moved EXCEPT !.fault = "assertion failed: shifted_start > original_len"]
                    ELSE [moved EXCEPT
                            !.shifted_start = @ - 1,
                            !.emitted = Append(@,
                                Located(call_func(func, OriginalLocation_Insertion(l.insertion_id)),
                                        moved.shifted_start - 1)),
                            !.insertion_id = @ + 1,
                            !.steps = Append(@, <<moved.original_len,
                                                  moved.shifted_start - 1, l.shifted_end>>)]

\* the end of the function with the untouched originals counted from one
compute_end_from_one(l, func) ==
    LET rest == [l EXCEPT !.emitted = @ \o [k \in 1..l.original_len |->
                    Located(call_func(func, OriginalLocation_Original(k - 1)), k)]]
    IN IF exact_len(Len(l.iter), Len(list_B) - Len(l.iter)) # 0
       THEN [rest EXCEPT !.fault = "Unexpected insertions"]
       ELSE rest

\* after the loop: the untouched originals, then the check of the iterator's len()
compute_end(l, func) ==
    LET rest == [l EXCEPT !.emitted = @ \o [k \in 1..l.original_len |->
                    Located(call_func(func, OriginalLocation_Original(k - 1)), k - 1)]]
    IN IF exact_len(Len(l.iter), Len(list_B) - Len(l.iter)) # 0
       THEN [rest EXCEPT !.fault = "Unexpected insertions"]
       ELSE rest

-----------------------------------------------------------------------------
\* lib.rs: InsertionSet

Init ==
    /\ \E n \in 0..MaxLen :
          target = [buf |-> [i \in 1..n |-> OriginalElement(i - 1)], len |-> n]
    /\ shifted_start = 0
    /\ shifted_end = 0
    /\ insertions = <<>>
    /\ size_lie = Honest
    /\ loc = NoLoc
    /\ locations = <<>>
    /\ view = <<>>
    /\ pc = "idle"
    /\ fault = "none"
    /\ oob = FALSE
    /\ ops = NoOps
    /\ dropped = <<>>
    /\ next_id = 0
    /\ calls = 0
    /\ call = "none"
    /\ apply_S = <<>>
    /\ apply_B = <<>>
    /\ list_S = <<>>
    /\ list_B = <<>>

\* InsertionSet::push / InsertionSet::insert
push ==
    /\ pc = "idle"
    /\ next_id < MaxIns
    /\ \E index \in 0..MaxIndex :
          insertions' = Append(insertions, Insertion(index, InsertedElement(next_id)))
    /\ next_id' = next_id + 1
    /\ UNCHANGED <<target, shifted_start, shifted_end, ops, size_lie, loc, locations, view,
                   pc, fault, oob, dropped, calls, call, apply_S, apply_B, list_S, list_B>>

\* apply without its self.sort(): the queue is taken as it stands
sort_skipped(queue) == queue

\* InsertionSet::sort
sort(queue) == insertion_sort_by_key(queue)

\* InsertionSet::apply (and applied): self.sort(), then the driver over PoppingIter
apply ==
    /\ pc = "idle"
    /\ calls < MaxCalls
    /\ apply_bulk_insertions_begin(sort(insertions))
    /\ apply_S' = Elements(target)
    /\ apply_B' = insertions
    /\ calls' = calls + 1
    /\ call' = "apply"
    /\ UNCHANGED <<size_lie, loc, locations, view, dropped, next_id, list_S, list_B>>

\* InsertionSet::list_updated_locations, up to the loop of compute_updated_locations:
\* self.sort(), and the iterator self.insertions.iter().rev().map(|i| i.index)
list_updated_locations ==
    /\ pc = "idle"
    /\ calls < MaxCalls
    /\ insertions' = sort(insertions)
    /\ loc' = compute_begin(target.len, Reverse(Indexes(insertions')))
    /\ locations' = <<>>
    /\ list_S' = Elements(target)
    /\ list_B' = insertions
    /\ calls' = calls + 1
    /\ call' = "list"
    /\ pc' = "list_loop"
    /\ UNCHANGED <<target, shifted_start, shifted_end, ops, size_lie, view, fault, oob,
                   dropped, next_id, apply_S, apply_B>>

list_updated_locations_loop ==
    /\ pc = "list_loop"
    /\ loc.original_len # loc.shifted_start
    /\ loc' = compute_loop(loc, "set")
    /\ fault' = loc'.fault
    /\ pc' = IF loc'.fault = "none" THEN "list_loop" ELSE "panicked"
    /\ UNCHANGED <<target, shifted_start, shifted_end, ops, insertions, size_lie, locations,
                   view, oob, dropped, next_id, calls, call, apply_S, apply_B, list_S, list_B>>

\* the end of compute_updated_locations, then result.sort_by_key(..); result
list_updated_locations_end ==
    /\ pc = "list_loop"
    /\ loc.original_len = loc.shifted_start
    /\ loc' = compute_end(loc, "set")
    /\ fault' = loc'.fault
    /\ locations' = IF loc'.fault = "none" THEN sort_by_updated(loc'.emitted) ELSE <<>>
    /\ pc' = IF loc'.fault = "none" THEN "idle" ELSE "panicked"
    /\ UNCHANGED <<target, shifted_start, shifted_end, ops, insertions, size_lie,
                   view, oob, dropped, next_id, calls, call, apply_S, apply_B, list_S, list_B>>

\* After a panic the owners are dropped: the Vec drops its slots [0, len), the set
\* (or the iterator) drops the insertions it still holds.  BulkShifter has no Drop.
unwind ==
    /\ pc = "panicked"
    /\ dropped' = dropped \o Elements(target) \o ElementsOf(insertions)
    /\ pc' = "dropped"
    /\ UNCHANGED <<target, shifted_start, shifted_end, ops, insertions, size_lie, loc,
                   locations, view, fault, oob, next_id, calls, call,
                   apply_S, apply_B, list_S, list_B>>

Next ==
    \/ push
    \/ apply
    \/ apply_bulk_insertions_loop
    \/ apply_bulk_insertions_end
    \/ list_updated_locations
    \/ list_updated_locations_loop
    \/ list_updated_locations_end
    \/ unwind

Spec == Init /\ [][Next]_vars

-----------------------------------------------------------------------------
\* The drivers called directly, on any ExactSizeIterator: the items in any order,
\* the declared size right or wrong.

MaxLie == 1

InitDriver ==
    /\ \E n \in 0..MaxLen :
          target = [buf |-> [i \in 1..n |-> OriginalElement(i - 1)], len |-> n]
    /\ \E k \in 0..MaxIns : \E f \in [1..k -> 0..MaxIndex] :
          insertions = [i \in 1..k |-> Insertion(f[i], InsertedElement(i - 1))]
    /\ size_lie \in {Honest} \cup [by : ((0 - MaxLie)..MaxLie) \ {0}, kept : BOOLEAN]
    /\ shifted_start = 0
    /\ shifted_end = 0
    /\ loc = NoLoc
    /\ locations = <<>>
    /\ view = <<>>
    /\ pc = "idle"
    /\ fault = "none"
    /\ oob = FALSE
    /\ ops = NoOps
    /\ dropped = <<>>
    /\ next_id = Len(insertions)
    /\ calls = 0
    /\ call = "none"
    /\ apply_S = <<>>
    /\ apply_B = <<>>
    /\ list_S = <<>>
    /\ list_B = <<>>

\* apply_bulk_insertions(target, iterator): the first call, or the call after the
\* dry run over the same indexes, whether that one returned or its panic was caught
\* (it borrowed the slice and changed nothing)
apply_bulk_insertions ==
    /\ <<pc, call>> \in {<<"idle", "none">>, <<"idle", "compute">>, <<"panicked", "compute">>}
    /\ apply_bulk_insertions_begin(insertions)
    /\ apply_S' = Elements(target)
    /\ apply_B' = insertions
    /\ calls' = calls + 1
    /\ call' = "apply"
    /\ UNCHANGED <<size_lie, loc, locations, view, dropped, next_id, list_S, list_B>>

\* compute_updated_locations(target, iterator over the same indexes, callback)
compute_updated_locations ==
    /\ pc = "idle"
    /\ call = "none"
    /\ loc' = compute_begin(target.len, Reverse(Indexes(insertions)))
    /\ locations' = <<>>
    /\ list_S' = Elements(target)
    /\ list_B' = insertions
    /\ calls' = calls + 1
    /\ call' = "compute"
    /\ pc' = "compute_loop"
    /\ UNCHANGED <<target, shifted_start, shifted_end, ops, insertions, size_lie, view, fault,
                   oob, dropped, next_id, apply_S, apply_B>>

compute_updated_locations_loop ==
    /\ pc = "compute_loop"
    /\ loc.original_len # loc.shifted_start
    /\ loc' = compute_loop(loc, "raw")
    /\ fault' = loc'.fault
    /\ pc' = IF loc'.fault = "none" THEN "compute_loop" ELSE "panicked"
    /\ UNCHANGED <<target, shifted_start, shifted_end, ops, insertions, size_lie, locations,
                   view, oob, dropped, next_id, calls, call, apply_S, apply_B, list_S, list_B>>

\* the end of compute_updated_locations; `locations` holds the callback's calls
compute_updated_locations_end ==
    /\ pc = "compute_loop"
    /\ loc.original_len = loc.shifted_start
    /\ loc' = compute_end(loc, "raw")
    /\ fault' = loc'.fault
    /\ locations' = loc'.emitted
    /\ pc' = IF loc'.fault = "none" THEN "idle" ELSE "panicked"
    /\ UNCHANGED <<target, shifted_start, shifted_end, ops, insertions, size_lie,
                   view, oob, dropped, next_id, calls, call, apply_S, apply_B, list_S, list_B>>

NextDriver ==
    \/ apply_bulk_insertions
    \/ apply_bulk_insertions_loop
    \/ apply_bulk_insertions_end
    \/ compute_updated_locations
    \/ compute_updated_locations_loop
    \/ compute_updated_locations_end
    \/ unwind

SpecDriver == InitDriver /\ [][NextDriver]_vars

-----------------------------------------------------------------------------
\* BulkShifter used directly: any operations, any arguments

InitShifter ==
    /\ Init

\* BulkShifter::new(target, desired_insertions)
new ==
    /\ pc = "idle"
    /\ call = "none"
    /\ \E desired_insertions \in 0..MaxIns :
          Commit(BulkShifter_new(target, desired_insertions))
    /\ apply_S' = Elements(target)
    /\ call' = "shifter"
    /\ pc' = "shifter"
    /\ UNCHANGED <<insertions, size_lie, loc, locations, view, dropped, next_id, calls,
                   apply_B, list_S, list_B>>

\* shifter.shift_original(start)
call_shift_original ==
    /\ pc = "shifter"
    /\ \E start \in 0..MaxIndex :
          LET shifted == shift_original(Self, start)
          IN /\ Commit(shifted)
             /\ pc' = IF shifted.fault = "none" THEN "shifter" ELSE "panicked"
    /\ UNCHANGED <<insertions, size_lie, loc, locations, view, dropped, next_id, calls,
                   call, apply_S, apply_B, list_S, list_B>>

\* shifter.push_shifted(value), the value a fresh element; a panic drops the value
call_push_shifted ==
    /\ pc = "shifter"
    /\ next_id <= MaxIns
    /\ LET value == InsertedElement(next_id)
           pushed == push_shifted(Self, value)
       IN /\ Commit(pushed)
          /\ dropped' = IF pushed.fault = "none" THEN dropped ELSE Append(dropped, value)
          /\ pc' = IF pushed.fault = "none" THEN "shifter" ELSE "panicked"
    /\ next_id' = next_id + 1
    /\ UNCHANGED <<insertions, size_lie, loc, locations, view, calls,
                   call, apply_S, apply_B, list_S, list_B>>

\* shifter.shifted_elements()
call_shifted_elements ==
    /\ pc = "shifter"
    /\ view' = shifted_elements(Self)
    /\ oob' = (oob \/ shifted_start > shifted_end)
    /\ UNCHANGED <<target, shifted_start, shifted_end, ops, insertions, size_lie, loc,
                   locations, pc, fault, dropped, next_id, calls,
                   call, apply_S, apply_B, list_S, list_B>>

\* shifter.finish()
call_finish ==
    /\ pc = "shifter"
    /\ LET finished == finish(Self)
       IN /\ Commit(finished)
          /\ pc' = IF finished.fault = "none" THEN "finished" ELSE "panicked"
    /\ UNCHANGED <<insertions, size_lie, loc, locations, view, dropped, next_id, calls,
                   call, apply_S, apply_B, list_S, list_B>>

NextShifter ==
    \/ new
    \/ call_shift_original
    \/ call_push_shifted
    \/ call_shifted_elements
    \/ call_finish
    \/ unwind

SpecShifter == InitShifter /\ [][NextShifter]_vars

-----------------------------------------------------------------------------
\* Every use of the shifter: directly (with no iterator at hand), or through the
\* drivers on any iterator

direct_new ==
    /\ insertions = <<>>
    /\ new

NextShifterAndDriver ==
    \/ direct_new
    \/ call_shift_original
    \/ call_push_shifted
    \/ call_shifted_elements
    \/ call_finish
    \/ apply_bulk_insertions
    \/ apply_bulk_insertions_loop
    \/ apply_bulk_insertions_end
    \/ compute_updated_locations
    \/ compute_updated_locations_loop
    \/ compute_updated_locations_end
    \/ unwind

SpecShifterAndDriver == InitDriver /\ [][NextShifterAndDriver]_vars

-----------------------------------------------------------------------------
\* What the claims are stated against

Range(s) == {s[i] : i \in 1..Len(s)}

\* Vec::insert(index, element) of the standard library
VecInsert(v, index, element) ==
    SubSeq(v, 1, index) \o <<element>> \o SubSeq(v, index + 1, Len(v))

\* how many insertions of batch B come before B[i] when B is ordered by index,
\* equal indexes keeping the order they have in B
StableRank(B, i) ==
    Cardinality({j \in 1..Len(B) :
        B[j].index < B[i].index \/ (B[j].index = B[i].index /\ j < i)})

\* the batch in its stable index-sorted order
StableOrder(B) ==
    [k \in 1..Len(B) |-> B[CHOOSE i \in 1..Len(B) : StableRank(B, i) = k - 1]]

\* Vec::insert of the insertions of q, one at a time, the last of q first
RECURSIVE InsertLastFirst(_, _)
InsertLastFirst(v, q) ==
    IF q = <<>> THEN v
    ELSE InsertLastFirst(VecInsert(v, q[Len(q)].index, q[Len(q)].element),
                         SubSeq(q, 1, Len(q) - 1))

OneAtATime(S, B) == InsertLastFirst(S, StableOrder(B))

InBounds(S, B) == \A i \in 1..Len(B) : B[i].index <= Len(S)

ApplyReturned == call = "apply" /\ pc = "idle"
ListReturned == call = "list" /\ pc = "idle"

\* C1: for a batch whose indexes are all <= len(S), apply returns and leaves the
\* target equal to S after Vec::insert of the insertions one at a time, taken in
\* the reverse of their stable index-sorted order.
C1_ApplyIsOneAtATime ==
    (call = "apply" /\ InBounds(apply_S, apply_B)) =>
        /\ pc \in {"apply_loop", "idle"}
        /\ pc = "idle" => Elements(target) = OneAtATime(apply_S, apply_B)

C1_Witness ==
    /\ ApplyReturned
    /\ Len(apply_S) = 3
    /\ Indexes(apply_B) = <<2, 0, 2>>

\* C2: when list_updated_locations and then apply ran on the same vector and the
\* same batch, every pair (tag, p) of the list names the element apply left at p:
\* S[i] for Original(i), the k-th insertion in stable index-sorted order for
\* Insertion(k).
C2_LocationsAgreeWithApply ==
    (ApplyReturned /\ list_S = apply_S /\ Range(list_B) = Range(apply_B)) =>
        \A e \in Range(locations) :
            /\ e.updated < target.len
            /\ e.original.kind = "Original" =>
                  /\ e.original.n < Len(list_S)
                  /\ target.buf[e.updated + 1] = list_S[e.original.n + 1]
            /\ e.original.kind = "Insertion" =>
                  /\ e.original.n < Len(list_B)
                  /\ target.buf[e.updated + 1] = StableOrder(list_B)[e.original.n + 1].element

C2_Witness ==
    /\ ApplyReturned
    /\ list_S = apply_S
    /\ Len(list_S) = 2
    /\ Indexes(list_B) = <<2, 0, 1>>
    /\ Range(list_B) = Range(apply_B)
    /\ Len(locations) = 5

\* C3: insertions with the same index stand next to each other in the vector
\* apply produces, in the order in which they were queued (elements are numbered
\* in queueing order).
C3_EqualIndexesKeepQueueOrder ==
    ApplyReturned =>
        \A i, j \in 1..Len(apply_B) :
            (apply_B[i].index = apply_B[j].index
             /\ apply_B[i].element < apply_B[j].element) =>
                \E p, q \in 1..target.len :
                    /\ target.buf[p] = apply_B[i].element
                    /\ target.buf[q] = apply_B[j].element
                    /\ p < q
                    /\ \A r \in p..q : \E k \in 1..Len(apply_B) :
                          /\ apply_B[k].index = apply_B[i].index
                          /\ apply_B[k].element = target.buf[r]

C3_Witness ==
    /\ ApplyReturned
    /\ Len(apply_S) = 2
    /\ Indexes(apply_B) = <<1, 0, 1>>

\* C4: with a queued insertion whose index exceeds len(S), apply and the dry run
\* never return: they panic at the first insertion they take, before the vector
\* or any counter has changed.
C4_OutOfBoundsFaults ==
    /\ (call = "apply" /\ ~InBounds(apply_S, apply_B)) =>
          \/ /\ pc = "apply_loop"
             /\ Len(insertions) = Len(apply_B)
             /\ Elements(target) = apply_S
          \/ /\ pc \in {"panicked", "dropped"}
             /\ fault # "none"
             /\ Elements(target) = apply_S
    /\ (call = "list" /\ ~InBounds(list_S, list_B)) =>
          \/ /\ pc = "list_loop"
             /\ loc.emitted = <<>>
          \/ /\ pc \in {"panicked", "dropped"}
             /\ fault # "none"
             /\ locations = <<>>

C4_Witness ==
    /\ pc = "panicked"
    /\ call = "apply"
    /\ Len(apply_S) = 2
    /\ Indexes(apply_B) = <<3, 0, 1>>

\* the 0-based position of insertion x among the insertions of B in the order
\* in which they were queued
QueuePosition(B, x) == Cardinality({y \in Range(B) : y.element < x.element})

\* C5 (as claimed): Insertion(k) in the list names the insertion queued k-th: the
\* element that ends up at the reported position is the element of that insertion.
C5_TagIsQueuePosition ==
    (ListReturned /\ InBounds(list_S, list_B)) =>
        \A e \in Range(locations) :
            e.original.kind = "Insertion" =>
                \E x \in Range(list_B) :
                    /\ QueuePosition(list_B, x) = e.original.n
                    /\ OneAtATime(list_S, list_B)[e.updated + 1] = x.element

\* C5 (amended): Insertion(k) in the list names the k-th insertion of the batch
\* in its stable index-sorted order, the order the call leaves the queue in; that
\* is the queue position whenever the batch was queued in non-decreasing index
\* order.
QueuedInIndexOrder(B) ==
    \A x, y \in Range(B) : x.element < y.element => x.index <= y.index

C5_TagIsSortedPosition ==
    (ListReturned /\ InBounds(list_S, list_B)) =>
        \A e \in Range(locations) :
            e.original.kind = "Insertion" =>
                /\ e.original.n < Len(list_B)
                /\ e.updated < Len(list_S) + Len(list_B)
                /\ OneAtATime(list_S, list_B)[e.updated + 1]
                      = StableOrder(list_B)[e.original.n + 1].element
                /\ QueuedInIndexOrder(list_B) =>
                      \E x \in Range(list_B) :
                          /\ QueuePosition(list_B, x) = e.original.n
                          /\ OneAtATime(list_S, list_B)[e.updated + 1] = x.element

C5_Witness ==
    /\ ListReturned
    /\ Len(list_S) = 1
    /\ Indexes(list_B) = <<1, 0>>
    /\ locations[1] = Located(OriginalLocation_Insertion(0), 0)
    /\ list_B[2].element = OneAtATime(list_S, list_B)[1]

\* C9: list_updated_locations returns n + m pairs, the p-th (from 0) with final
\* position p, and every Original(i), i < n, and Insertion(k), k < m, is the tag
\* of exactly one pair.
C9_LocationsAreABijection ==
    ListReturned =>
        LET n == Len(list_S)
            m == Len(list_B)
        IN /\ Len(locations) = n + m
           /\ \A p \in 1..Len(locations) : locations[p].updated = p - 1
           /\ \A i \in 0..(n - 1) :
                 Cardinality({p \in 1..Len(locations) :
                     locations[p].original = OriginalLocation_Original(i)}) = 1
           /\ \A k \in 0..(m - 1) :
                 Cardinality({p \in 1..Len(locations) :
                     locations[p].original = OriginalLocation_Insertion(k)}) = 1

C9_Witness ==
    /\ ListReturned
    /\ Len(list_S) = 3
    /\ Indexes(list_B) = <<3, 1, 1>>
    /\ Len(locations) = 6

\* C10: the sort leaves a permutation of the queue, non-decreasing by index, in
\* which insertions of equal index keep the order they had before the sort.
IsStableSortOf(after, before) ==
    /\ Len(after) = Len(before)
    /\ Range(after) = Range(before)
    /\ \A i \in 1..(Len(after) - 1) : after[i].index <= after[i + 1].index
    /\ \A i, j \in 1..Len(before) :
          (i < j /\ before[i].index = before[j].index) =>
              \E p, q \in 1..Len(after) :
                  p < q /\ after[p] = before[i] /\ after[q] = before[j]

C10_SortIsStable ==
    /\ pc = "list_loop" => IsStableSortOf(insertions, list_B)
    /\ (pc = "apply_loop" /\ Len(insertions) = Len(apply_B)) =>
          IsStableSortOf(insertions, apply_B)

C10_Witness ==
    /\ pc = "list_loop"
    /\ Indexes(list_B) = <<2, 1, 1>>

\* the shifter exists: it was created and finish() has not consumed it
ShifterExists ==
    \/ pc \in {"shifter", "apply_loop"}
    \/ /\ pc \in {"panicked", "dropped"}
       /\ call \in {"shifter", "apply"}
       /\ fault # "Unexpected insertions"

\* the slots (0-based) that hold live elements: the Vec's [0, len) and, while the
\* shifter exists, its shifted region [shifted_start, shifted_end)
LiveSlots ==
    IF ShifterExists
    THEN (0..(target.len - 1)) \cup (shifted_start..(shifted_end - 1))
    ELSE 0..(target.len - 1)

GapSlots == target.len..(shifted_start - 1)

\* C6: whatever BulkShifter operations are called with whatever arguments, and
\* whatever iterator apply_bulk_insertions is given, every slot of the original
\* and of the shifted region holds an initialized value that no other live slot
\* holds, nothing at or beyond shifted_end (the reserved allocation) is touched,
\* the slice shifted_elements returns is initialized, and the Vec's length never
\* reaches into the gap.
C6_RegionsStayInitialized ==
    call \in {"shifter", "apply"} =>
        /\ ~oob
        /\ shifted_end <= Len(target.buf)
        /\ ShifterExists => (target.len <= shifted_start /\ shifted_start <= shifted_end)
        /\ target.len <= shifted_end
        /\ \A i \in LiveSlots : read_slot(target.buf, i) # Uninit
        /\ \A i, j \in LiveSlots :
              i # j => read_slot(target.buf, i) # read_slot(target.buf, j)
        /\ \A k \in 1..Len(view) : view[k] # Uninit

C6_Witness ==
    /\ pc = "shifter"
    /\ target.len = 1
    /\ shifted_start = 3
    /\ shifted_end = 5
    /\ Len(view) = 2
    /\ \E i \in GapSlots : read_slot(target.buf, i) # Uninit

\* how many times the destructor of element e ran
DropCount(e) == Cardinality({i \in 1..Len(dropped) : dropped[i] = e})

\* C7 (as claimed): once a bulk insertion that panicked has been unwound, every
\* original element and every element of the batch has been dropped exactly once.
C7_AbandonedDropsEachOnce ==
    (pc = "dropped" /\ call = "apply") =>
        \A e \in Range(apply_S) \cup Range(ElementsOf(apply_B)) : DropCount(e) = 1

\* the iterator's declared size differs from the number of items it holds
Misdeclared(B) == exact_len(Len(B), 0) # Len(B)

\* C8 (as claimed): neither driver returns normally on an iterator whose declared
\* count and actual item count disagree.
C8_MisdeclaredNeverReturns ==
    /\ (call = "apply" /\ Misdeclared(apply_B)) => pc # "idle"
    /\ (call = "compute" /\ Misdeclared(list_B)) => pc # "idle"

-----------------------------------------------------------------------------
\* C11: an apply of an empty batch returns and leaves the target equal to S, and
\* list_updated_locations on an empty batch returns exactly (Original(i), i) for
\* i = 0..len(S)-1, in that order.
C11_EmptyBatchIsIdentity ==
    /\ (call = "apply" /\ apply_B = <<>>) =>
          /\ fault = "none"
          /\ pc = "idle" => Elements(target) = apply_S
    /\ (ListReturned /\ list_B = <<>>) =>
          locations = [i \in 1..Len(list_S) |->
                          Located(OriginalLocation_Original(i - 1), i - 1)]

C11_Witness ==
    /\ ListReturned
    /\ list_B = <<>>
    /\ Len(list_S) = MaxLen
    /\ Len(locations) = MaxLen
    /\ apply_B = <<>>
    /\ apply_S = list_S
    /\ Elements(target) = apply_S

\* C12 (as claimed): whenever a bulk insertion of a batch of m insertions into S
\* returns normally, the vector's length is exactly len(S) + m.
C12_ReturnedLengthIsSum ==
    ApplyReturned => target.len = Len(apply_S) + Len(apply_B)

\* C13: in every state reached from BulkShifter::new by any sequence of
\* shift_original and push_shifted calls, faulting calls included,
\* len <= shifted_start <= shifted_end holds and shifted_end equals the original
\* length plus the number of insertions given at construction.  finish consumes
\* the shifter, so the states after its return are not states of a shifter.
C13_RegionsStayOrdered ==
    (call = "shifter" /\ pc # "finished") =>
        /\ target.len <= shifted_start
        /\ shifted_start <= shifted_end
        /\ shifted_end = Len(apply_S) + ops.desired

C13_Witness ==
    /\ call = "shifter"
    /\ pc = "panicked"
    /\ fault = "Insufficient room!"
    /\ ops.desired = 2
    /\ Len(ops.written) = 2
    /\ Len(ops.copied) = 2
    /\ target.len = 1
    /\ shifted_start = 1
    /\ shifted_end = 5

\* the number of slots the step's ptr::copy moved: positive exactly in a step
\* that is a successful shift_original with moved_memory > 0
MovedCount == Len(ops'.copied) - Len(ops.copied)

\* the size of the gap [len, shifted_start), now and after the step
GapSize == shifted_start - target.len
GapSizeAfter == shifted_start' - target'.len

\* C14 (as claimed): a successful shift_original(start) with moved_count =
\* len - start > 0 makes the gap [len, shifted_start) moved_count slots smaller,
\* the original region moved_count shorter and the shifted region moved_count
\* longer.
C14_ShiftShrinksGap ==
    [][(call = "shifter" /\ call' = "shifter" /\ MovedCount > 0) =>
          /\ GapSizeAfter = GapSize - MovedCount
          /\ target'.len = target.len - MovedCount
          /\ shifted_end' - shifted_start' = (shifted_end - shifted_start) + MovedCount]_vars

\* C14 (amended): a successful shift_original(start) with moved_count =
\* len - start > 0 leaves the size of the gap unchanged: the gap moves left by
\* moved_count slots, from [len, shifted_start) to
\* [start, shifted_start - moved_count), while the original region becomes
\* moved_count shorter (its length is start) and the shifted region moved_count
\* longer.
C14_ShiftMovesGap ==
    [][(call = "shifter" /\ call' = "shifter" /\ MovedCount > 0) =>
          /\ GapSizeAfter = GapSize
          /\ target'.len = target.len - MovedCount
          /\ shifted_start' = shifted_start - MovedCount
          /\ shifted_end' - shifted_start' = (shifted_end - shifted_start) + MovedCount]_vars

C14_Witness ==
    /\ call = "shifter"
    /\ pc = "shifter"
    /\ Len(apply_S) = 3
    /\ Len(ops.copied) = 2
    /\ ops.written = <<>>
    /\ target.len = 1
    /\ shifted_start = 3
    /\ shifted_end = 5

\* C15: no shift_original or push_shifted (nor any other call on the shifter)
\* changes the value at a position that was already in the shifted region, nor
\* the value of an original slot below the new len; also when the moved run
\* overlaps its own source range, and then the run still arrives as it was.
C15_ShiftedSlotsAreFrozen ==
    [][(call = "shifter" /\ pc = "shifter") =>
          /\ \A i \in 0..(MovedCount - 1) :
                read_slot(target'.buf, shifted_start' + i) =
                    read_slot(target.buf, target'.len + i)
          /\ \A p \in shifted_start..(shifted_end - 1) :
                read_slot(target'.buf, p) = read_slot(target.buf, p)
          /\ \A p \in 0..(target'.len - 1) :
                read_slot(target'.buf, p) = read_slot(target.buf, p)]_vars

\* S = [1, 2, 3] with two slots reserved: 3 was shifted, one element pushed, and
\* then the run [1, 2] moved one slot up, over its own second slot
C15_Witness ==
    /\ call = "shifter"
    /\ pc = "shifter"
    /\ target.len = 0
    /\ shifted_start = 1
    /\ shifted_end = 5
    /\ target.buf = <<OriginalElement(0), OriginalElement(0), OriginalElement(1),
                      InsertedElement(0), OriginalElement(2)>>

\* how many times e occurs in the sequence s
Count(s, e) == Cardinality({i \in 1..Len(s) : s[i] = e})

\* C16: during one bulk insertion of a batch taken in reverse sorted order, with
\* any indexes, repeated ones included, ptr::copy moves only original elements
\* and each of them at most once, never one below the smallest insertion index,
\* and ptr::write writes only elements of the batch, each at most once and, when
\* the call returns, exactly once.
C16_EachElementMovedOnce ==
    call = "apply" =>
        /\ Range(ops.copied) \subseteq Range(apply_S)
        /\ \A e \in Range(apply_S) : Count(ops.copied, e) <= 1
        /\ \A i \in 1..Len(apply_S) :
              (\A k \in 1..Len(apply_B) : i - 1 < apply_B[k].index) =>
                  Count(ops.copied, apply_S[i]) = 0
        /\ Range(ops.written) \subseteq Range(ElementsOf(apply_B))
        /\ \A e \in Range(ElementsOf(apply_B)) : Count(ops.written, e) <= 1
        /\ pc = "idle" =>
              \A e \in Range(ElementsOf(apply_B)) : Count(ops.written, e) = 1

C16_Witness ==
    /\ ApplyReturned
    /\ Len(apply_S) = 3
    /\ Len(apply_B) = 3
    /\ \E i, j \in 1..Len(apply_B) : i # j /\ apply_B[i].index = apply_B[j].index
    /\ Len(ops.copied) = 2
    /\ Len(ops.written) = 3

\* the check of compute_updated_locations that stands for the check of
\* apply_bulk_insertions (and of the shifter under it) with the given message
DryRunCheck(msg) ==
    CASE msg = "assertion failed: start <= self.len()" -> "Invalid insertion index"
      [] msg = "Insufficient room to move" -> "assertion failed: room to move"
      [] msg = "Insufficient room!" -> "assertion failed: shifted_start > original_len"
      [] OTHER -> msg

\* the dry run was made, and then the insertion, on the same vector and indexes
AppliedAfterDryRun == call = "apply" /\ calls = 2

\* C17: on the same original length and the same sequence of insertion indexes,
\* valid or not, sorted or not, compute_updated_locations and
\* apply_bulk_insertions start from the same shifted_end and leave the same
\* (original_len, shifted_start, shifted_end) after each turn of their loops, and
\* one of them faults in a turn (or in the check after the loop) exactly when
\* the other faults there, on the same check.
C17_DryRunMirrorsApply ==
    AppliedAfterDryRun =>
        /\ shifted_end = loc.shifted_end
        /\ Len(ops.steps) <= Len(loc.steps)
        /\ \A k \in 1..Len(ops.steps) : ops.steps[k] = loc.steps[k]
        /\ pc # "apply_loop" =>
              /\ Len(ops.steps) = Len(loc.steps)
              /\ DryRunCheck(fault) = loc.fault

C17_Witness ==
    /\ AppliedAfterDryRun
    /\ pc = "panicked"
    /\ Len(ops.steps) = 2
    /\ Len(loc.steps) = 2
    /\ fault = "assertion failed: start <= self.len()"
    /\ loc.fault = "Invalid insertion index"

\* C18: a shift_original, push_shifted or finish call that faults on its
\* precondition leaves len, shifted_start, shifted_end and every slot of the
\* buffer as they were before the call.
C18_FaultChangesNothing ==
    [][(call = "shifter" /\ pc = "shifter" /\ pc' = "panicked") =>
          /\ fault' # "none"
          /\ target' = target
          /\ shifted_start' = shifted_start
          /\ shifted_end' = shifted_end]_vars

C18_Witness ==
    /\ call = "shifter"
    /\ pc = "panicked"
    /\ fault = "assertion failed: start <= self.len()"
    /\ Len(ops.copied) = 1
    /\ Len(ops.written) = 1
    /\ target.len < shifted_start

\* C19: while a shifter with m reserved slots exists, driven by hand or by
\* apply_bulk_insertions, the gap shifted_start - len is m minus the number of
\* push_shifted calls that completed; the driver's loop is over after exactly m
\* turns; and the 'Insufficient room to move' check never fails.  The dry run
\* keeps the same count and its room check never fails either.
C19_GapCountsPendingInsertions ==
    /\ ShifterExists => GapSize = ops.desired - Len(ops.written)
    /\ fault # "Insufficient room to move"
    /\ (call = "apply" /\ pc = "apply_loop") =>
          /\ Len(ops.steps) = Len(ops.written)
          /\ is_finished(Self) <=> Len(ops.steps) = ops.desired
    /\ (call = "compute" /\ pc = "compute_loop") =>
          /\ loc.shifted_start - loc.original_len =
                (loc.shifted_end - Len(list_S)) - Len(loc.steps)
          /\ Len(loc.steps) = loc.insertion_id
    /\ loc.fault # "assertion failed: room to move"

C19_Witness ==
    /\ call = "apply"
    /\ pc = "apply_loop"
    /\ shifted_start = target.len
    /\ ops.desired = 3
    /\ Len(ops.steps) = 3
    /\ Len(ops.copied) = 3
    /\ loc.insertion_id = 3

\* the indexes in the order the iterator over batch B yields them
Yielded(B) == Reverse(Indexes(B))

\* the original length when the k-th yielded index is processed, if all went
\* well before: the length of S, or the index processed just before
LengthBefore(S, y, k) == IF k = 1 THEN Len(S) ELSE y[k - 1]

\* the yielded indexes never increase and the first is within S
NonIncreasingWithin(S, y) == \A k \in 1..Len(y) : y[k] <= LengthBefore(S, y, k)

\* the first yielded index that exceeds the original length of its turn
FirstExceeding(S, y) ==
    CHOOSE k \in 1..Len(y) :
        /\ y[k] > LengthBefore(S, y, k)
        /\ \A j \in 1..(k - 1) : y[j] <= LengthBefore(S, y, j)

\* C20: with an iterator whose declared size is exact, apply_bulk_insertions on
\* a vector of length n completes without fault iff the indexes it yields never
\* increase and the first is <= n; otherwise it faults at the first insertion
\* whose index exceeds the current original length, which is the index
\* processed just before it.
C20_FaultsIffIndexRises ==
    (call = "apply" /\ size_lie = Honest) =>
        LET y == Yielded(apply_B) IN
        /\ (pc = "apply_loop" /\ ops.steps # <<>>) =>
              target.len = y[Len(ops.steps)]
        /\ pc # "apply_loop" =>
              /\ fault = "none" <=> NonIncreasingWithin(apply_S, y)
              /\ fault # "none" =>
                    /\ fault = "assertion failed: start <= self.len()"
                    /\ Len(ops.steps) = FirstExceeding(apply_S, y) - 1
                    /\ Len(insertions) = Len(apply_B) - FirstExceeding(apply_S, y)
                    /\ target.len = LengthBefore(apply_S, y, FirstExceeding(apply_S, y))

C20_Witness ==
    /\ call = "apply"
    /\ size_lie = Honest
    /\ pc = "panicked"
    /\ Len(apply_B) = 3
    /\ Len(ops.steps) = 2
    /\ insertions = <<>>
    /\ target.len < Len(apply_S)

\* C21: if InsertionSet::apply faults, it faults on the first insertion it takes,
\* the one the sort put last and whose index is the largest, on shift_original's
\* first assertion and before anything was moved or written: the vector still
\* has the length and the contents of S, and the queue holds the sorted batch
\* less that one insertion, which was dropped.
C21_FaultIsOnFirstInsertion ==
    (call = "apply" /\ fault # "none") =>
        LET sorted == sort(apply_B)
            taken == sorted[Len(sorted)]
        IN /\ apply_B # <<>>
           /\ fault = "assertion failed: start <= self.len()"
           /\ \A k \in 1..Len(apply_B) : apply_B[k].index <= taken.index
           /\ taken.index > Len(apply_S)
           /\ ops.copied = <<>>
           /\ ops.written = <<>>
           /\ ops.steps = <<>>
           /\ target.len = Len(apply_S)
           /\ Elements(target) = apply_S
           /\ insertions = SubSeq(sorted, 1, Len(sorted) - 1)
           /\ Count(dropped, taken.element) = 1

C21_Witness ==
    /\ call = "apply"
    /\ pc = "panicked"
    /\ Len(apply_S) = 2
    /\ Indexes(apply_B) = <<3, 0, 1>>
    /\ Indexes(insertions) = <<0, 1>>

\* the step begins an InsertionSet::apply, returns from one, begins a
\* list_updated_locations (or compute_updated_locations), returns from one
ApplyBegins == pc = "idle" /\ pc' = "apply_loop"
ApplyReturns == pc = "apply_loop" /\ pc' = "idle"
ListBegins == pc = "idle" /\ pc' = "list_loop"
ListReturns == pc = "list_loop" /\ pc' = "idle"

\* C22: InsertionSet::apply consumes the queue: when it returns the queue is
\* empty (desired_insertions() is 0), so an apply of the set as it then stands
\* takes an empty batch and leaves its vector unchanged, and a listing yields
\* the identity mapping.  list_updated_locations / compute_updated_locations
\* leave all m insertions queued, only reordered into stable index-sorted
\* order, and an apply that follows takes all of them.
C22_ApplyConsumesListKeeps ==
    [][/\ ApplyReturns =>
             /\ insertions' = <<>>
             /\ apply_B = <<>> => Elements(target') = apply_S
       /\ ApplyBegins =>
             /\ apply_B' = insertions
             /\ Len(insertions') = Len(insertions)
             /\ apply_S' = Elements(target)
       /\ ListBegins =>
             /\ list_B' = insertions
             /\ IsStableSortOf(insertions', insertions)
       /\ pc = "list_loop" => insertions' = insertions
       /\ (ListReturns /\ list_B = <<>>) =>
             locations' = [i \in 1..Len(list_S) |->
                              Located(OriginalLocation_Original(i - 1), i - 1)]]_vars

\* a batch was applied, and the set applied again at once: the second apply took
\* an empty batch and left the vector, which holds the inserted elements, as it was
C22_Witness ==
    /\ ApplyReturned
    /\ calls = 2
    /\ apply_B = <<>>
    /\ insertions = <<>>
    /\ next_id = 2
    /\ Len(apply_S) = 3
    /\ Elements(target) = apply_S
    /\ list_S = <<>>

====
